---- MODULE Spec2Model ----
(***************************************************************************)
(* Stripe webhook -> Pub/Sub ingress (src/main.py).                        *)
(*                                                                         *)
(* Every request is one invocation of webhook(request).  Requests run on   *)
(* instances of the function; an instance owns its in-memory TTLCache,     *)
(* while the Firestore collection stripe_events and the Pub/Sub topic are  *)
(* shared by all instances.  A request's steps interleave with the steps   *)
(* of the other requests at the points where webhook() touches shared      *)
(* state or blocks: the dedupe lookup, the publish future, the dedupe      *)
(* write.                                                                  *)
(***************************************************************************)
EXTENDS Integers, Sequences, FiniteSets, TLC

\* ------------------------------------------------------------------ bounds
\* Number of requests the model follows.
MaxReq == 2
\* The TTLCache timer runs from 0 to MaxTime.
MaxTime == 3
\* TTLCache(maxsize=10_000, ttl=900) of main.py:101, scaled down so that the
\* capacity bound and the time-to-live are reached within MaxReq and MaxTime.
maxsize == 1
ttl == 2

Requests == 1..MaxReq
Instances == {"i1", "i2"}
EventIds == {"evt_1", "evt_2"}

\* ------------------------------------------------------------ request data
STRIPE_ENDPOINT_SECRET == "whsec_endpoint"
Secrets == {STRIPE_ENDPOINT_SECRET, "whsec_other"}
Methods == {"GET", "POST", "PUT"}
\* A raw body is the JSON document of an event (named by the event's id) or
\* bytes that are no JSON.
NotJson == "not_json"
Bodies == EventIds \cup {NotJson}
\* The Stripe-Signature header: the signing scheme's output for a key and a
\* body; header "" when the request carries none.
Sign(secret, body) == [key |-> secret, over |-> body]
NoSignature == [key |-> "", over |-> ""]

\* request.path is never read by webhook(): the function answers on every path.
Paths == {"/", "/webhook"}

NoRequest ==
    [method |-> "", path |-> "", raw_body |-> "", signature |-> NoSignature,
     instance |-> ""]

\* --------------------------------------------------------------- responses
WSGIResponse(status, body) == [status |-> status, body |-> body]
NoResponse == WSGIResponse(0, "")
Live == WSGIResponse(200, "{status: live}")
MethodNotAllowed == WSGIResponse(405, "Metodo nao permitido")
InvalidPayload == WSGIResponse(400, "Invalid payload")
InvalidSignature == WSGIResponse(400, "Invalid signature")
Duplicate == WSGIResponse(200, "{status: duplicate}")
Ok == WSGIResponse(200, "{status: ok}")
InternalError == WSGIResponse(500, "Internal error")

VARIABLES
    FIRESTORE_DEDUPE, \* the USE_FIRESTORE_DEDUPE flag, read once at start
    stripe_events,    \* Firestore: ids of the documents stripe_events/<id>
    cache,            \* per instance, the TTLCache: links in insertion order
    now,              \* the TTLCache timer
    topic,            \* messages the Pub/Sub topic has acknowledged
    request,          \* per request, what was received
    pc,               \* per request, where webhook() stands
    future,           \* per request, the publish future
    response,         \* per request, the WSGIResponse returned
    obs,              \* history: the collaborator calls a request made
    prior,            \* history: the requests answered when this one arrived
    lost,             \* history: requests whose cache record expired or was evicted
    lostAtCheck       \* history: lost, as it was at this request's lookup

vars == <<FIRESTORE_DEDUPE, stripe_events, cache, now, topic, request, pc,
          future, response, obs, prior, lost, lostAtCheck>>

NoCalls == [seen |-> "none", publish |-> 0, mark |-> "none"]

\* ---------------------------------------------------------------- TTLCache
\* Mutant of Contains: a linked key is present whatever the timer reads.
Contains_NoExpiry(c, key, t) == \E i \in 1..Len(c) : c[i].key = key

\* cachetools.TTLCache: a key is present while timer() < link.expires.
Contains(c, key, t) == \E i \in 1..Len(c) : c[i].key = key /\ t < c[i].expires

IsLive(link, t) == t < link.expires
\* expire(time): drop the links that have expired.
Expire(c, t) == SelectSeq(c, LAMBDA link : IsLive(link, t))

\* Cache.__setitem__ of a new key: popitem() the oldest links while full.
RECURSIVE PopUntilFits(_)
PopUntilFits(c) == IF Len(c) + 1 > maxsize THEN PopUntilFits(Tail(c)) ELSE c

\* TTLCache.__setitem__: expire, make room, (re)link the key at the end.
SetItem(c, key, t) ==
    LET live == Expire(c, t)
        rest == SelectSeq(live, LAMBDA link : link.key # key)
        room == IF Len(rest) = Len(live) THEN PopUntilFits(live) ELSE rest
    IN  Append(room, [key |-> key, expires |-> t + ttl])

\* ------------------------------------------------------------ pure helpers
\* Mutant of construct_event: the signature header is not compared.
construct_event_NoSignatureCheck(raw_body, signature, secret) ==
    IF raw_body = NotJson THEN "ValueError" ELSE "event"

\* stripe.Webhook.construct_event: the header is verified against the secret
\* and the raw body first, the body is parsed after.
construct_event(raw_body, signature, secret) ==
    IF signature # Sign(secret, raw_body) THEN "SignatureVerificationError"
    ELSE IF raw_body = NotJson THEN "ValueError"
    ELSE "event"

\* event["id"] of the parsed body.
EventId(raw_body) == raw_body

\* json.dumps(event_dict).encode()
Dumps(eid) == [json |-> eid]

\* Mutant of already_processed: the lookup never finds a record.
already_processed_Never(i, eid) == FALSE

\* already_processed(event_id), evaluated on instance i.
already_processed(i, eid) ==
    IF FIRESTORE_DEDUPE THEN eid \in stripe_events
    ELSE Contains(cache[i], eid, now)

eidOf(r) == EventId(request[r].raw_body)

\* Requests whose cache record is gone, given the cache and timer after a
\* step: no link of the instance's cache holds the id with time left.
Lost(c, t) ==
    IF FIRESTORE_DEDUPE THEN lost
    ELSE lost \cup {q \in Requests : obs[q].mark = "ok"
                        /\ ~\E k \in 1..Len(c[request[q].instance]) :
                               /\ c[request[q].instance][k].key = eidOf(q)
                               /\ c[request[q].instance][k].expires > t}

Init ==
    /\ FIRESTORE_DEDUPE \in BOOLEAN
    /\ stripe_events = {}
    /\ cache = [i \in Instances |-> <<>>]
    /\ now = 0
    /\ topic = {}
    /\ request = [r \in Requests |-> NoRequest]
    /\ pc = [r \in Requests |-> "idle"]
    /\ future = [r \in Requests |-> "none"]
    /\ response = [r \in Requests |-> NoResponse]
    /\ obs = [r \in Requests |-> NoCalls]
    /\ prior = [r \in Requests |-> {}]
    /\ lost = {}
    /\ lostAtCheck = [r \in Requests |-> {}]

Answered(r) == pc[r] \in {"responded", "raised"}

\* The requests the model delivers: probes and other methods without a body,
\* on every path, and POSTs to the webhook path of every body with no signature
\* or with the signature of that body under either secret.
Inputs ==
    {[method |-> m, path |-> p, raw_body |-> "", signature |-> NoSignature,
      instance |-> i] :
        m \in Methods \ {"POST"}, p \in Paths, i \in Instances}
    \cup
    UNION {{[method |-> "POST", path |-> "/webhook", raw_body |-> b,
             signature |-> s, instance |-> i] :
                i \in Instances,
                s \in {NoSignature} \cup {Sign(k, b) : k \in Secrets}} :
           b \in Bodies}

\* Mutant of Dispatch: no health-check branch, a GET is a method like the
\* others that are no POST.
Dispatch_NoProbe(req) ==
    IF req.method # "POST"
    THEN [pc |-> "responded", response |-> MethodNotAllowed]
    ELSE LET event == construct_event(req.raw_body, req.signature,
                                      STRIPE_ENDPOINT_SECRET)
         IN  IF event = "ValueError"
             THEN [pc |-> "responded", response |-> InvalidPayload]
             ELSE IF event = "SignatureVerificationError"
             THEN [pc |-> "responded", response |-> InvalidSignature]
             ELSE [pc |-> "dedupe", response |-> NoResponse]

\* Mutant of Dispatch: the method is not compared with POST, every request
\* that is no GET goes on to the signature validation.
Dispatch_NoMethodCheck(req) ==
    IF req.method = "GET" THEN [pc |-> "responded", response |-> Live]
    ELSE LET event == construct_event(req.raw_body, req.signature,
                                      STRIPE_ENDPOINT_SECRET)
         IN  IF event = "ValueError"
             THEN [pc |-> "responded", response |-> InvalidPayload]
             ELSE IF event = "SignatureVerificationError"
             THEN [pc |-> "responded", response |-> InvalidSignature]
             ELSE [pc |-> "dedupe", response |-> NoResponse]

\* webhook(), lines 144-161, for one received request: the method is
\* dispatched and a POST's signature is validated.  Gives the position the
\* handler reaches and the response it has returned by then.
Dispatch(req) ==
    IF req.method = "GET" THEN [pc |-> "responded", response |-> Live]
    ELSE IF req.method # "POST"
    THEN [pc |-> "responded", response |-> MethodNotAllowed]
    ELSE LET event == construct_event(req.raw_body, req.signature,
                                      STRIPE_ENDPOINT_SECRET)
         IN  IF event = "ValueError"
             THEN [pc |-> "responded", response |-> InvalidPayload]
             ELSE IF event = "SignatureVerificationError"
             THEN [pc |-> "responded", response |-> InvalidSignature]
             ELSE [pc |-> "dedupe", response |-> NoResponse]

\* Mutant of Receive: an Internal error takes the process down, and a request
\* that arrives afterwards gets no response from webhook().
Receive_DownAfterError(r) ==
    /\ pc[r] = "idle"
    /\ \A q \in Requests : q < r => pc[q] # "idle"
    /\ \E req \in Inputs :
        /\ request' = [request EXCEPT ![r] = req]
        /\ IF \E q \in Requests : response[q] = InternalError
           THEN /\ pc' = [pc EXCEPT ![r] = "raised"]
                /\ UNCHANGED response
           ELSE /\ pc' = [pc EXCEPT ![r] = Dispatch(req).pc]
                /\ response' = [response EXCEPT ![r] = Dispatch(req).response]
    /\ prior' = [prior EXCEPT ![r] = {q \in Requests : Answered(q)}]
    /\ UNCHANGED <<FIRESTORE_DEDUPE, stripe_events, cache, now, topic, future,
                   obs, lost, lostAtCheck>>

\* A request arrives at an instance and runs up to its first access to the
\* dedupe store (lines 144-164 touch nothing that is shared).
Receive(r) ==
    /\ pc[r] = "idle"
    /\ \A q \in Requests : q < r => pc[q] # "idle"
    /\ \E req \in Inputs :
        /\ request' = [request EXCEPT ![r] = req]
        /\ pc' = [pc EXCEPT ![r] = Dispatch(req).pc]
        /\ response' = [response EXCEPT ![r] = Dispatch(req).response]
    /\ prior' = [prior EXCEPT ![r] = {q \in Requests : Answered(q)}]
    /\ UNCHANGED <<FIRESTORE_DEDUPE, stripe_events, cache, now, topic, future,
                   obs, lost, lostAtCheck>>

\* Mutant of Check: the handler takes a process-wide lock around lookup,
\* publish and mark, so a request waits while another one is in between.
Check_Serialized(r) ==
    /\ pc[r] = "dedupe"
    /\ \A q \in Requests \ {r} : pc[q] \notin {"awaiting", "marking"}
    /\ IF already_processed(request[r].instance, eidOf(r))
       THEN /\ pc' = [pc EXCEPT ![r] = "responded"]
            /\ response' = [response EXCEPT ![r] = Duplicate]
            /\ obs' = [obs EXCEPT ![r].seen = "hit"]
            /\ UNCHANGED future
       ELSE /\ pc' = [pc EXCEPT ![r] = "awaiting"]
            /\ future' = [future EXCEPT ![r] = "pending"]
            /\ obs' = [obs EXCEPT ![r].seen = "miss", ![r].publish = @ + 1]
            /\ UNCHANGED response
    /\ lostAtCheck' = [lostAtCheck EXCEPT ![r] = lost]
    /\ UNCHANGED <<FIRESTORE_DEDUPE, stripe_events, cache, now, topic, request,
                   prior, lost>>

\* Mutant of Check: mark_processed(eid) is called before publish(event).
Check_MarkFirst(r) ==
    /\ pc[r] = "dedupe"
    /\ IF already_processed(request[r].instance, eidOf(r))
       THEN /\ pc' = [pc EXCEPT ![r] = "responded"]
            /\ response' = [response EXCEPT ![r] = Duplicate]
            /\ obs' = [obs EXCEPT ![r].seen = "hit"]
            /\ UNCHANGED <<future, stripe_events, cache>>
       ELSE /\ pc' = [pc EXCEPT ![r] = "awaiting"]
            /\ future' = [future EXCEPT ![r] = "pending"]
            /\ obs' = [obs EXCEPT ![r].seen = "miss", ![r].publish = @ + 1]
            /\ IF FIRESTORE_DEDUPE
               THEN /\ stripe_events' = stripe_events \cup {eidOf(r)}
                    /\ UNCHANGED cache
               ELSE /\ cache' = [cache EXCEPT ![request[r].instance] =
                                    SetItem(@, eidOf(r), now)]
                    /\ UNCHANGED stripe_events
            /\ UNCHANGED response
    /\ lostAtCheck' = [lostAtCheck EXCEPT ![r] = lost]
    /\ UNCHANGED <<FIRESTORE_DEDUPE, now, topic, request, prior, lost>>

\* webhook(), lines 164-170, with publish() up to publisher.publish(...): the
\* dedupe lookup; a duplicate is answered, a new id is sent to the topic and
\* the request blocks in .result().
Check(r) ==
    /\ pc[r] = "dedupe"
    /\ IF already_processed(request[r].instance, eidOf(r))
       THEN /\ pc' = [pc EXCEPT ![r] = "responded"]
            /\ response' = [response EXCEPT ![r] = Duplicate]
            /\ obs' = [obs EXCEPT ![r].seen = "hit"]
            /\ UNCHANGED future
       ELSE /\ pc' = [pc EXCEPT ![r] = "awaiting"]
            /\ future' = [future EXCEPT ![r] = "pending"]
            /\ obs' = [obs EXCEPT ![r].seen = "miss", ![r].publish = @ + 1]
            /\ UNCHANGED response
    /\ lostAtCheck' = [lostAtCheck EXCEPT ![r] = lost]
    /\ UNCHANGED <<FIRESTORE_DEDUPE, stripe_events, cache, now, topic, request,
                   prior, lost>>

\* already_processed(), line 116: the Firestore get() raises (storage error).
\* The call stands outside the try of line 169: the exception leaves webhook().
CheckError(r) ==
    /\ pc[r] = "dedupe"
    /\ FIRESTORE_DEDUPE
    /\ pc' = [pc EXCEPT ![r] = "raised"]
    /\ obs' = [obs EXCEPT ![r].seen = "error"]
    /\ lostAtCheck' = [lostAtCheck EXCEPT ![r] = lost]
    /\ UNCHANGED <<FIRESTORE_DEDUPE, stripe_events, cache, now, topic, request,
                   future, response, prior, lost>>

\* publish(), line 131: the topic acknowledges the message; .result() returns.
PublishAck(r) ==
    /\ pc[r] = "awaiting"
    /\ future[r] = "pending"
    /\ topic' = topic \cup {[data |-> Dumps(eidOf(r)), by |-> r]}
    /\ future' = [future EXCEPT ![r] = "acked"]
    /\ pc' = [pc EXCEPT ![r] = "marking"]
    /\ UNCHANGED <<FIRESTORE_DEDUPE, stripe_events, cache, now, request,
                   response, obs, prior, lost, lostAtCheck>>

\* Mutant of PublishError: the id is recorded although the publish failed.
PublishError_Marks(r) ==
    /\ pc[r] = "awaiting"
    /\ future[r] = "pending"
    /\ future' = [future EXCEPT ![r] = "failed"]
    /\ pc' = [pc EXCEPT ![r] = "responded"]
    /\ response' = [response EXCEPT ![r] = InternalError]
    /\ IF FIRESTORE_DEDUPE
       THEN /\ stripe_events' = stripe_events \cup {eidOf(r)}
            /\ UNCHANGED cache
       ELSE /\ cache' = [cache EXCEPT ![request[r].instance] =
                            SetItem(@, eidOf(r), now)]
            /\ UNCHANGED stripe_events
    /\ UNCHANGED <<FIRESTORE_DEDUPE, now, topic, request, obs, prior, lost,
                   lostAtCheck>>

\* Mutant of PublishError: the exception of .result() is swallowed and the
\* handler goes on to mark_processed.
PublishError_Swallowed(r) ==
    /\ pc[r] = "awaiting"
    /\ future[r] = "pending"
    /\ future' = [future EXCEPT ![r] = "failed"]
    /\ pc' = [pc EXCEPT ![r] = "marking"]
    /\ UNCHANGED <<FIRESTORE_DEDUPE, stripe_events, cache, now, topic, request,
                   response, obs, prior, lost, lostAtCheck>>

\* publish(), line 131, and lines 173-175: the publish fails; .result() raises
\* and the handler answers 500.
PublishError(r) ==
    /\ pc[r] = "awaiting"
    /\ future[r] = "pending"
    /\ future' = [future EXCEPT ![r] = "failed"]
    /\ pc' = [pc EXCEPT ![r] = "responded"]
    /\ response' = [response EXCEPT ![r] = InternalError]
    /\ UNCHANGED <<FIRESTORE_DEDUPE, stripe_events, cache, now, topic, request,
                   obs, prior, lost, lostAtCheck>>

\* publish(), line 131: the bus neither acknowledges nor rejects.  .result()
\* is called without a timeout, so the request stays blocked in it.
PublishHang(r) ==
    /\ pc[r] = "awaiting"
    /\ future[r] = "pending"
    /\ future' = [future EXCEPT ![r] = "hung"]
    /\ UNCHANGED <<FIRESTORE_DEDUPE, stripe_events, cache, now, topic, request,
                   pc, response, obs, prior, lost, lostAtCheck>>

\* Mutant of MarkProcessed: the handler answers ok and writes no record.
MarkProcessed_NoRecord(r) ==
    /\ pc[r] = "marking"
    /\ obs' = [obs EXCEPT ![r].mark = "ok"]
    /\ pc' = [pc EXCEPT ![r] = "responded"]
    /\ response' = [response EXCEPT ![r] = Ok]
    /\ UNCHANGED <<FIRESTORE_DEDUPE, stripe_events, cache, now, topic, request,
                   future, prior, lost, lostAtCheck>>

\* Mutant of MarkProcessed: one Firestore document is written for all events,
\* so that a new record replaces the one before.
MarkProcessed_Overwrites(r) ==
    /\ pc[r] = "marking"
    /\ IF FIRESTORE_DEDUPE
       THEN /\ stripe_events' = {eidOf(r)}
            /\ UNCHANGED <<cache, lost>>
       ELSE LET i == request[r].instance
                c == [cache EXCEPT ![i] = SetItem(cache[i], eidOf(r), now)]
            IN  /\ cache' = c
                /\ lost' = Lost(c, now)
                /\ UNCHANGED stripe_events
    /\ obs' = [obs EXCEPT ![r].mark = "ok"]
    /\ pc' = [pc EXCEPT ![r] = "responded"]
    /\ response' = [response EXCEPT ![r] = Ok]
    /\ UNCHANGED <<FIRESTORE_DEDUPE, now, topic, request, future, prior,
                   lostAtCheck>>

\* mark_processed(), lines 120-125, then line 172.
MarkProcessed(r) ==
    /\ pc[r] = "marking"
    /\ IF FIRESTORE_DEDUPE
       THEN /\ stripe_events' = stripe_events \cup {eidOf(r)}
            /\ UNCHANGED <<cache, lost>>
       ELSE LET i == request[r].instance
                c == [cache EXCEPT ![i] = SetItem(cache[i], eidOf(r), now)]
            IN  /\ cache' = c
                /\ lost' = Lost(c, now)
                /\ UNCHANGED stripe_events
    /\ obs' = [obs EXCEPT ![r].mark = "ok"]
    /\ pc' = [pc EXCEPT ![r] = "responded"]
    /\ response' = [response EXCEPT ![r] = Ok]
    /\ UNCHANGED <<FIRESTORE_DEDUPE, now, topic, request, future, prior,
                   lostAtCheck>>

\* Mutant of MarkError: the failure of set() is logged and answered ok.
MarkError_Ok(r) ==
    /\ pc[r] = "marking"
    /\ FIRESTORE_DEDUPE
    /\ obs' = [obs EXCEPT ![r].mark = "error"]
    /\ pc' = [pc EXCEPT ![r] = "responded"]
    /\ response' = [response EXCEPT ![r] = Ok]
    /\ UNCHANGED <<FIRESTORE_DEDUPE, stripe_events, cache, now, topic, request,
                   future, prior, lost, lostAtCheck>>

\* mark_processed(), line 123, and lines 173-175: the Firestore set() raises
\* after the publish; the handler answers 500.
MarkError(r) ==
    /\ pc[r] = "marking"
    /\ FIRESTORE_DEDUPE
    /\ obs' = [obs EXCEPT ![r].mark = "error"]
    /\ pc' = [pc EXCEPT ![r] = "responded"]
    /\ response' = [response EXCEPT ![r] = InternalError]
    /\ UNCHANGED <<FIRESTORE_DEDUPE, stripe_events, cache, now, topic, request,
                   future, prior, lost, lostAtCheck>>

\* The TTLCache timer advances (time.monotonic).
Tick ==
    /\ ~FIRESTORE_DEDUPE
    /\ now < MaxTime
    /\ now' = now + 1
    /\ lost' = Lost(cache, now + 1)
    /\ UNCHANGED <<FIRESTORE_DEDUPE, stripe_events, cache, topic, request, pc,
                   future, response, obs, prior, lostAtCheck>>

\* The steps webhook() takes by itself once it is scheduled.
HandlerStep(r) == Check(r) \/ MarkProcessed(r)

Next ==
    \/ \E r \in Requests :
        \/ Receive(r)
        \/ Check(r)
        \/ CheckError(r)
        \/ PublishAck(r)
        \/ PublishError(r)
        \/ PublishHang(r)
        \/ MarkProcessed(r)
        \/ MarkError(r)
    \/ Tick

Spec == Init /\ [][Next]_vars

\* Every request that can take a step of its own is eventually scheduled; the
\* bus and the stores answer when they answer.
FairSpec == Spec /\ \A r \in Requests : WF_vars(HandlerStep(r))

\* ------------------------------------------------------------------ claims
\* The request passed signature verification, judged on what it carries: a
\* POST of an event's JSON signed with the endpoint secret.
Verified(r) ==
    /\ request[r].method = "POST"
    /\ request[r].raw_body \in EventIds
    /\ request[r].signature = Sign(STRIPE_ENDPOINT_SECRET, request[r].raw_body)

SameEvent(r1, r2) ==
    Verified(r1) /\ Verified(r2) /\ eidOf(r1) = eidOf(r2)

\* Both requests consult the same dedupe records.
SameStore(r1, r2) ==
    FIRESTORE_DEDUPE \/ request[r1].instance = request[r2].instance

PublishedBy(r) == [data |-> Dumps(eidOf(r)), by |-> r] \in topic

\* How many messages carrying the id the topic has acknowledged.
Published(eid) == Cardinality({m \in topic : m.data = Dumps(eid)})

\* r passed the lookup, the publish and the mark with no failure.
CleanFirst(r) ==
    /\ Verified(r)
    /\ Answered(r)
    /\ obs[r].seen = "miss"
    /\ future[r] = "acked"
    /\ obs[r].mark = "ok"

\* r2 is the same event submitted after r1 was answered, looked up in the
\* same store with no lookup failure and r1's record not expired or evicted.
RepeatOf(r1, r2) ==
    /\ r1 # r2
    /\ SameEvent(r1, r2)
    /\ SameStore(r1, r2)
    /\ r1 \in prior[r2]
    /\ Answered(r2)
    /\ obs[r2].seen # "error"
    /\ r1 \notin lostAtCheck[r2]

C2_PublishFailureNotRecorded ==
    \A r \in Requests :
        future[r] = "failed" =>
            /\ response[r] = InternalError
            /\ obs[r].mark = "none"
            /\ \A r2 \in Requests :
                (/\ r \in prior[r2]
                 /\ SameEvent(r, r2)
                 /\ obs[r2].seen \in {"hit", "miss"}
                 /\ ~\E r3 \in Requests \ {r, r2} :
                        SameEvent(r, r3) /\ obs[r3].mark = "ok")
                => /\ obs[r2].publish = 1
                   /\ response[r2] # Duplicate

C2_Witness ==
    \E r, r2 \in Requests :
        /\ future[r] = "failed"
        /\ r \in prior[r2]
        /\ SameEvent(r, r2)
        /\ SameStore(r, r2)
        /\ obs[r2].publish = 1

\* C3 (as claimed): with the persistent store every event id is handed to the
\* bus at most once, and exactly once if a delivery of it was answered 200.
C3_ExactlyOnce ==
    FIRESTORE_DEDUPE =>
        \A eid \in EventIds :
            /\ Published(eid) <= 1
            /\ (\E r \in Requests :
                    Verified(r) /\ eidOf(r) = eid /\ response[r].status = 200)
               => Published(eid) = 1

\* C3 (amended): with the persistent store, an event id of which a delivery
\* was answered 200 has been handed to the bus at least once, and no delivery
\* that arrives after that answer publishes it again.
C3_AtLeastOnce ==
    FIRESTORE_DEDUPE =>
        \A r \in Requests :
            (Verified(r) /\ response[r].status = 200) =>
                /\ Published(eidOf(r)) >= 1
                /\ \A r2 \in Requests :
                    (r \in prior[r2] /\ SameEvent(r, r2)) => obs[r2].publish = 0

C3_Witness ==
    /\ FIRESTORE_DEDUPE
    /\ \E r, r2 \in Requests :
        /\ Verified(r) /\ response[r].status = 200
        /\ r \in prior[r2] /\ SameEvent(r, r2)
        /\ Answered(r2)
        /\ Published(eidOf(r)) = 1

\* Neither request had been answered when the other arrived.
Concurrent(r1, r2) == r1 # r2 /\ r1 \notin prior[r2] /\ r2 \notin prior[r1]

\* C4 (as claimed): with the persistent store, two requests for the same event
\* id that are handled concurrently never both call publish.
C4_AtomicCheckAndSet ==
    FIRESTORE_DEDUPE =>
        \A r1, r2 \in Requests :
            (Concurrent(r1, r2) /\ SameEvent(r1, r2)) =>
                ~(obs[r1].publish = 1 /\ obs[r2].publish = 1)

\* C5 (as claimed): when markSeen fails after a successful publish the message
\* stays published and the request is answered 200.
C5_MarkFailureAnswered200 ==
    \A r \in Requests :
        obs[r].mark = "error" => PublishedBy(r) /\ response[r].status = 200

\* C5 (amended): when markSeen fails after a successful publish the message
\* stays published, no record is written and the request is answered 500.
C5_MarkFailureAnswered500 ==
    \A r \in Requests :
        obs[r].mark = "error" =>
            /\ PublishedBy(r)
            /\ response[r] = InternalError
            /\ (\A q \in Requests : SameEvent(q, r) => obs[q].mark # "ok")
               => eidOf(r) \notin stripe_events

C5_Witness ==
    \E r \in Requests : obs[r].mark = "error" /\ pc[r] = "responded"

\* C6: under either store every event id with a dedupe record has been
\* acknowledged by the topic, and a request marks only after its own publish
\* was acknowledged.
C6_RecordImpliesPublished ==
    /\ \A eid \in stripe_events : Published(eid) >= 1
    /\ \A i \in Instances : \A k \in 1..Len(cache[i]) :
           Published(cache[i][k].key) >= 1
    /\ \A r \in Requests : obs[r].mark # "none" => PublishedBy(r)

C6_Witness ==
    /\ lost # {}
    /\ \E i \in Instances : \E k \in 1..Len(cache[i]) : IsLive(cache[i][k], now)

\* C7: a POST that fails verification is answered 400 and makes no lookup, no
\* publish and no mark; every message of the topic comes from a request that
\* passed verification.
C7_RejectedGoesNoFurther ==
    /\ \A r \in Requests :
        (pc[r] # "idle" /\ request[r].method = "POST" /\ ~Verified(r)) =>
            /\ pc[r] = "responded"
            /\ response[r].status = 400
            /\ obs[r] = NoCalls
            /\ future[r] = "none"
    /\ \A m \in topic : Verified(m.by)

C7_Witness ==
    /\ \E r \in Requests :
        /\ request[r].method = "POST"
        /\ request[r].raw_body \in EventIds
        /\ request[r].signature = Sign("whsec_other", request[r].raw_body)
        /\ response[r] = InvalidSignature
    /\ topic # {}

\* C8 (as claimed): a request whose publish the bus never acknowledges is
\* eventually answered 500, its id unmarked.
C8_HungPublishTimesOut ==
    \A r \in Requests :
        (future[r] = "hung") ~> (response[r] = InternalError /\ obs[r].mark = "none")

\* C9 (as claimed): a request whose dedupe lookup fails does not publish, does
\* not mark, and is answered 500.
C9_LookupFailureAnswered500 ==
    \A r \in Requests :
        obs[r].seen = "error" =>
            /\ obs[r].publish = 0
            /\ obs[r].mark = "none"
            /\ pc[r] = "responded"
            /\ response[r].status = 500

\* C10: a request is answered ok only once the topic has acknowledged the
\* message that this request published.
C10_OkOnlyAfterAck ==
    \A r \in Requests :
        response[r] = Ok => future[r] = "acked" /\ PublishedBy(r)

C10_Witness ==
    \E r \in Requests : response[r] = Ok /\ PublishedBy(r)

\* The request has arrived.
Received(r) == pc[r] # "idle"

\* C11 (as claimed): a request that is no POST is answered 405 and makes no
\* lookup, publish or mark, except a GET to the root path, answered live.
C11_OnlyRootGetIsProbe ==
    \A r \in Requests :
        (Received(r) /\ request[r].method # "POST") =>
            /\ obs[r] = NoCalls
            /\ future[r] = "none"
            /\ pc[r] = "responded"
            /\ IF request[r].method = "GET" /\ request[r].path = "/"
               THEN response[r] = Live
               ELSE response[r] = MethodNotAllowed

\* C11 (amended): a request that is no POST makes no lookup, publish or mark;
\* a GET, to whatever path, is answered live and every other method 405.
C11_OnlyPostAdvances ==
    \A r \in Requests :
        (Received(r) /\ request[r].method # "POST") =>
            /\ obs[r] = NoCalls
            /\ future[r] = "none"
            /\ pc[r] = "responded"
            /\ IF request[r].method = "GET"
               THEN response[r] = Live
               ELSE response[r] = MethodNotAllowed

C11_Witness ==
    /\ \E r \in Requests : request[r].method = "PUT" /\ response[r] = MethodNotAllowed
    /\ \E r \in Requests :
        request[r].method = "GET" /\ request[r].path = "/webhook" /\ response[r] = Live

\* The step handles a GET that request r delivers.
ProbeStep(r) == pc[r] = "idle" /\ pc'[r] # "idle" /\ request'[r].method = "GET"

\* C12: in whatever state a GET arrives, it is answered 200 live by the step
\* that handles it, and that step changes neither the dedupe stores, nor the
\* topic, nor any other request.
C12_ProbeHasNoEffect ==
    [][\A r \in Requests :
          ProbeStep(r) =>
              /\ response'[r] = Live
              /\ pc'[r] = "responded"
              /\ obs'[r] = NoCalls
              /\ UNCHANGED <<stripe_events, cache, topic, future>>
              /\ \A q \in Requests \ {r} :
                    pc'[q] = pc[q] /\ response'[q] = response[q] /\ obs'[q] = obs[q]]_vars

C12_Witness ==
    \E r, q \in Requests :
        /\ request[r].method = "GET"
        /\ response[r] = Live
        /\ q < r
        /\ q \notin prior[r]
        /\ pc[q] = "marking"
        /\ topic # {}

\* No request other than r1 and r2 delivers their event.
OnlyDeliveries(r1, r2) ==
    \A r3 \in Requests \ {r1, r2} : ~SameEvent(r1, r3)

\* r was answered and met no failure of the lookup, the publisher or the store.
Unfailed(r) ==
    /\ Answered(r)
    /\ obs[r].seen # "error"
    /\ future[r] # "failed"
    /\ obs[r].mark # "error"

\* The record of r's event stands in the store r used, unless it has expired
\* or was evicted since.
Marked(r) ==
    /\ obs[r].mark = "ok"
    /\ r \notin lost => already_processed(request[r].instance, eidOf(r))

\* C13: a valid event delivered while the publisher is down is answered 500
\* and left unmarked; the same event retried once the publisher works is
\* answered ok and marked, and the event was published exactly once in total.
C13_RetryAfterOutage ==
    \A r1, r2 \in Requests :
        (/\ future[r1] = "failed"
         /\ r1 \in prior[r2]
         /\ SameEvent(r1, r2)
         /\ OnlyDeliveries(r1, r2)
         /\ Unfailed(r2))
        => /\ response[r1] = InternalError
           /\ obs[r1].mark = "none"
           /\ response[r2] = Ok
           /\ Marked(r2)
           /\ PublishedBy(r2)
           /\ Published(eidOf(r1)) = 1

C13_Witness ==
    \E r1, r2 \in Requests :
        /\ future[r1] = "failed"
        /\ r1 \in prior[r2]
        /\ request[r2] = request[r1]
        /\ Verified(r1)
        /\ response[r2] = Ok

\* C14: with the persistent store a written record stays, and every later
\* delivery of its id, on whatever instance, finds it, is answered duplicate
\* and does not publish; with the in-memory store a lookup finds only records
\* written on its own instance.
C14_RecordVisibility ==
    /\ FIRESTORE_DEDUPE =>
        \A r1 \in Requests :
            obs[r1].mark = "ok" =>
                /\ eidOf(r1) \in stripe_events
                /\ \A r2 \in Requests :
                    (r1 \in prior[r2] /\ SameEvent(r1, r2)
                        /\ obs[r2].seen \in {"hit", "miss"})
                    => /\ obs[r2].seen = "hit"
                       /\ obs[r2].publish = 0
                       /\ response[r2] = Duplicate
    /\ ~FIRESTORE_DEDUPE =>
        /\ \A r2 \in Requests :
            obs[r2].seen = "hit" =>
                \E r1 \in Requests \ {r2} :
                    /\ obs[r1].mark = "ok"
                    /\ SameEvent(r1, r2)
                    /\ request[r1].instance = request[r2].instance
        /\ \A i \in Instances : \A k \in 1..Len(cache[i]) :
            \E r1 \in Requests :
                /\ obs[r1].mark = "ok"
                /\ request[r1].instance = i
                /\ eidOf(r1) = cache[i][k].key

C14_Witness ==
    /\ FIRESTORE_DEDUPE
    /\ \E r1, r2 \in Requests :
        /\ obs[r1].mark = "ok"
        /\ r1 \in prior[r2]
        /\ SameEvent(r1, r2)
        /\ request[r1].instance # request[r2].instance
        /\ response[r2] = Duplicate

\* With the in-memory store the same situation ends in a second publish.
C14_WitnessInMemory ==
    /\ ~FIRESTORE_DEDUPE
    /\ \E r1, r2 \in Requests :
        /\ obs[r1].mark = "ok"
        /\ r1 \in prior[r2]
        /\ r1 \notin lostAtCheck[r2]
        /\ SameEvent(r1, r2)
        /\ request[r1].instance # request[r2].instance
        /\ obs[r2].seen = "miss"

\* r2 delivers, on the same instance and after r1 was answered, the event
\* that r1 marked; no other request delivers it; r2 has made its lookup.
RepeatInMemory(r1, r2) ==
    /\ ~FIRESTORE_DEDUPE
    /\ r1 # r2
    /\ obs[r1].mark = "ok"
    /\ r1 \in prior[r2]
    /\ SameEvent(r1, r2)
    /\ request[r1].instance = request[r2].instance
    /\ OnlyDeliveries(r1, r2)
    /\ obs[r2].seen \in {"hit", "miss"}

\* At r2's lookup r1's record had expired or had been evicted.
Gone(r1, r2) == r1 \in lostAtCheck[r2]

DistinctEvents(r1, r2) ==
    Verified(r1) /\ Verified(r2) /\ eidOf(r1) # eidOf(r2)

\* No other request delivers r's event.
OnlyDelivery(r) == \A q \in Requests \ {r} : ~SameEvent(r, q)

\* Whatever the other requests are doing, r's next step can be taken: its
\* lookup, the acknowledgement of its publish, its mark.
NeverBlocked(r) ==
    /\ pc[r] = "dedupe" => ENABLED Check(r)
    /\ (pc[r] = "awaiting" /\ future[r] = "pending") => ENABLED PublishAck(r)
    /\ pc[r] = "marking" => ENABLED MarkProcessed(r)

\* C16: requests for distinct event ids handled concurrently, with no failure,
\* are each answered ok, each event published exactly once and each id
\* marked; no request's step waits for another request, in particular the
\* publishes are acknowledged in any order.
C16_DistinctIdsIndependent ==
    /\ \A r \in Requests : NeverBlocked(r)
    /\ \A r1, r2 \in Requests :
        (/\ Concurrent(r1, r2)
         /\ DistinctEvents(r1, r2)
         /\ OnlyDelivery(r1) /\ OnlyDelivery(r2)
         /\ Unfailed(r1) /\ Unfailed(r2))
        => /\ response[r1] = Ok /\ response[r2] = Ok
           /\ Marked(r1) /\ Marked(r2)
           /\ Published(eidOf(r1)) = 1 /\ Published(eidOf(r2)) = 1

C16_Witness ==
    \E r1, r2 \in Requests :
        /\ Concurrent(r1, r2)
        /\ DistinctEvents(r1, r2)
        /\ response[r1] = Ok /\ response[r2] = Ok
        /\ request[r1].instance = request[r2].instance

\* r1 ended in 400, 405 or 500 before r2, a verified POST of an id that no
\* other request delivers, arrived.
AfterFailure(r1, r2) ==
    /\ pc[r1] = "responded"
    /\ response[r1].status \in {400, 405, 500}
    /\ r1 \in prior[r2]
    /\ Verified(r2)
    /\ OnlyDelivery(r2)

\* C17: after a request that ended in 400, 405 or 500, a following POST with a
\* valid signature and a new id is never blocked, and with publisher and store
\* working it is published once and answered ok.
C17_ServiceSurvivesFailure ==
    \A r1, r2 \in Requests :
        AfterFailure(r1, r2) =>
            /\ NeverBlocked(r2)
            /\ Unfailed(r2) =>
                /\ response[r2] = Ok
                /\ obs[r2].publish = 1
                /\ PublishedBy(r2)
                /\ Published(eidOf(r2)) = 1

C17_Witness ==
    \E r1, r2 \in Requests :
        /\ AfterFailure(r1, r2)
        /\ response[r1] = InternalError
        /\ request[r1].instance = request[r2].instance
        /\ response[r2] = Ok
====
